---- MODULE Spec2Model ----
(***************************************************************************)
(* Project Okavango data pipeline: the retriever (app/download_data.py)    *)
(* and the merger (app/merge_data.py).                                     *)
(*                                                                         *)
(* Five specifications share the variables below:                          *)
(*   SpecDownload  download_required_datasets / _download_file, run as a   *)
(*                 sequence of passes over one downloads directory;        *)
(*   SpecMerge     merge_map_with_datasets over a downloads directory;     *)
(*   SpecJoin      the body of the merge loop for one dataset (value       *)
(*                 column, _latest_per_country, left join, rename);        *)
(*   SpecLatest    _latest_per_country on the rows of one dataset;         *)
(*   SpecInfer     _infer_value_column on a list of column names.          *)
(***************************************************************************)
EXTENDS Integers, Sequences, FiniteSets, TLC

VARIABLES
    \* ---- the downloads directory
    dirExists,          \* downloads_path exists
    fs,                 \* filename -> "absent" | "partial" | "complete"
    fs0,                \* fs as it was when the running pass was called
    \* ---- download_required_datasets / _download_file
    pc,                 \* position of the running call
    force,              \* the force argument of the running pass
    idx,                \* position of the for loop in the datasets list
    attempt,            \* the loop variable of _download_file
    last_exception,     \* _download_file's last_exception
    downloaded_files,   \* the list the pass builds and returns
    error,              \* the exception the call ended with, or NoError
    log,                \* outcome of every request of the _download_file call of
                        \* the current loop iteration
    delays,             \* every time.sleep of that call
    requested,          \* files a request was made for in this pass
    written,            \* files opened for writing in this pass
    passes,             \* passes started so far
    \* ---- merge_map_with_datasets
    world,              \* the GeoDataFrame of the map
    df,                 \* the DataFrame read last
    latest,             \* the result of _latest_per_country for df
    merged_maps,        \* label -> merged rows
    shapefile,          \* the map as gpd.read_file returned it
    reads,              \* the files read so far by the running merge call
    result,             \* what the merge call handed back to its caller
    \* ---- _infer_value_column
    columns,            \* the column names handed to _infer_value_column
    value_col           \* what it returned (or InferError)

vars == <<dirExists, fs, fs0, pc, force, idx, attempt, last_exception,
          downloaded_files, error, log, delays, requested, written, passes,
          world, df, latest, merged_maps, shapefile, reads, result,
          columns, value_col>>

dlVars == <<dirExists, fs, fs0, force, idx, attempt, last_exception,
            downloaded_files, log, delays, requested, written, passes>>
mergeVars == <<world, df, latest, merged_maps, shapefile, reads, result>>
inferVars == <<columns, value_col>>

(***************************************************************************)
(* Bounds of the model.                                                    *)
(***************************************************************************)
MaxPasses == 2      \* passes of download_required_datasets over one directory
MaxRows   == 3      \* rows of a dataset handed to _latest_per_country
MaxJoinRows == 2    \* rows of a dataset handed to the join
MaxPolys  == 2      \* polygons of the map handed to the join
MaxCols   == 4      \* column names handed to _infer_value_column

(***************************************************************************)
(* app/download_data.py                                                    *)
(***************************************************************************)

\* The filenames of the DatasetSpec list, in configuration order.
datasets ==
    << "annual_change_forest_area.csv",
       "annual_deforestation.csv",
       "terrestrial_protected_areas.csv",
       "share_degraded_land.csv",
       "red_list_index.csv",
       "ne_110m_admin_0_countries.zip" >>

Filenames == { datasets[i] : i \in 1..Len(datasets) }

\* retries: int = 3
retries == 3

\* The ceiling of the backoff: min(2 ** attempt, 8).
BackoffCeiling == 8

Min(a, b) == IF a <= b THEN a ELSE b

\* time.sleep(min(2 ** attempt, 8))
Backoff(a) == Min(2 ^ a, BackoffCeiling)

\* for attempt in range(1, retries + 1)
\* (variant: one iteration too many)
LastAttemptOffByOne == retries + 1
LastAttempt == retries

NoError == [type |-> "none", cause |-> "none", message |-> "none"]
NoException == "none"

\* What one pass through the body of the try can end in: the body completes,
\* requests.get raises, raise_for_status raises, or the stream breaks after
\* destination.open("wb").
Failures == {"ConnectionError", "HTTPError", "ChunkedEncodingError"}

destination == datasets[idx]

Exists(f) == fs[f] # "absent"

\* if destination.exists() and not force
\* (variants: no test at all; the negation of force lost; a test of the
\* file's content instead of its existence)
SkipAlways(f) == TRUE
SkipWhenForced(f) == Exists(f) /\ force
SkipOnlyComplete(f) == fs[f] = "complete" /\ ~force
Skip(f) == Exists(f) /\ ~force

DownloadInit ==
    /\ dirExists \in BOOLEAN
    /\ fs \in [Filenames -> {"absent", "complete"}]
    /\ ~dirExists => \A f \in Filenames : fs[f] = "absent"
    /\ fs0 = fs
    /\ pc = "idle"
    /\ force = FALSE
    /\ idx = 1
    /\ attempt = 0
    /\ last_exception = NoException
    /\ downloaded_files = <<>>
    /\ error = NoError
    /\ log = <<>>
    /\ delays = <<>>
    /\ requested = {}
    /\ written = {}
    /\ passes = 0

\* download_required_datasets(downloads_dir, force) is called.
Call(f) ==
    /\ pc \in {"idle", "returned", "raised"}
    /\ passes < MaxPasses
    /\ passes' = passes + 1
    /\ force' = f
    /\ idx' = 1
    /\ downloaded_files' = <<>>
    /\ error' = NoError
    /\ requested' = {}
    /\ written' = {}
    /\ log' = <<>>
    /\ delays' = <<>>
    /\ attempt' = 0
    /\ last_exception' = NoException
    /\ pc' = "loop"
    /\ fs0' = fs
    /\ UNCHANGED <<dirExists, fs>>
    /\ UNCHANGED <<mergeVars, inferVars>>

\* One iteration of the for loop that takes the "Already exists" branch.
LoopSkip ==
    /\ pc = "loop"
    /\ idx <= Len(datasets)
    /\ Skip(destination)
    /\ downloaded_files' = Append(downloaded_files, destination)
    /\ idx' = idx + 1
    /\ log' = <<>>
    /\ delays' = <<>>
    /\ UNCHANGED <<dirExists, fs, fs0, pc, force, attempt, last_exception,
                   error, requested, written, passes>>
    /\ UNCHANGED <<mergeVars, inferVars>>

\* One iteration of the for loop that calls _download_file: the parent
\* directory is made and the retry loop is entered.
LoopDownload ==
    /\ pc = "loop"
    /\ idx <= Len(datasets)
    /\ ~Skip(destination)
    /\ dirExists' = TRUE
    /\ last_exception' = NoException
    /\ attempt' = 1
    /\ log' = <<>>
    /\ delays' = <<>>
    /\ pc' = "attempt"
    /\ UNCHANGED <<fs, fs0, force, idx, downloaded_files, error, requested,
                   written, passes>>
    /\ UNCHANGED <<mergeVars, inferVars>>

\* One iteration of the retry loop whose try body completes: the file is
\* written whole, _download_file returns and the caller appends the path.
AttemptOk ==
    /\ pc = "attempt"
    /\ requested' = requested \cup {destination}
    /\ written' = written \cup {destination}
    /\ fs' = [fs EXCEPT ![destination] = "complete"]
    /\ log' = Append(log, "ok")
    /\ downloaded_files' = Append(downloaded_files, destination)
    /\ idx' = idx + 1
    /\ pc' = "loop"
    /\ UNCHANGED <<dirExists, fs0, force, attempt, last_exception, error,
                   delays, passes>>
    /\ UNCHANGED <<mergeVars, inferVars>>

\* One iteration of the retry loop that ends in the except clause; after the
\* last one the loop is left and DownloadError is raised from last_exception.
AttemptFail(e) ==
    /\ pc = "attempt"
    /\ requested' = requested \cup {destination}
    /\ IF e = "ChunkedEncodingError"
         THEN /\ fs' = [fs EXCEPT ![destination] = "partial"]
              /\ written' = written \cup {destination}
         ELSE UNCHANGED <<fs, written>>
    /\ last_exception' = e
    /\ log' = Append(log, e)
    /\ delays' = Append(delays, Backoff(attempt))
    /\ IF attempt < LastAttempt
         THEN /\ attempt' = attempt + 1
              /\ UNCHANGED <<pc, error>>
         ELSE /\ pc' = "raised"
              /\ error' = [type |-> "DownloadError", cause |-> last_exception',
                            message |-> "Failed to download"]
              /\ UNCHANGED attempt
    /\ UNCHANGED <<dirExists, fs0, force, idx, downloaded_files, passes>>
    /\ UNCHANGED <<mergeVars, inferVars>>

\* The for loop is exhausted: return downloaded_files.
LoopReturn ==
    /\ pc = "loop"
    /\ idx > Len(datasets)
    /\ pc' = "returned"
    /\ UNCHANGED <<dlVars, error>>
    /\ UNCHANGED <<mergeVars, inferVars>>

(***************************************************************************)
(* app/merge_data.py: cells, frames and the helpers                        *)
(***************************************************************************)

\* A missing string cell (pd.NA; read_csv never yields it as a real string).
NA == "<NA>"

\* A missing numeric cell (float NaN, what errors="coerce" produces).  The
\* numeric cells of the model are all >= 0.
NaN == -1

Range(s) == { s[i] : i \in 1..Len(s) }

Restrict(f, S) == [x \in S |-> f[x]]

\* preferred_drop = {"Entity", "Code", "Year"}; required is the same set.
preferred_drop == {"Entity", "Code", "Year"}
required == {"Entity", "Code", "Year"}

InferError == "ValueError: Could not infer value column"

IsCandidate(c) == c \notin preferred_drop

\* _infer_value_column(df), on df.columns.
\* (variant: candidates[0])
InferFirstCandidate(cols) ==
    LET candidates == SelectSeq(cols, IsCandidate)
    IN  IF candidates = <<>> THEN InferError ELSE candidates[1]
_infer_value_column(cols) ==
    LET candidates == SelectSeq(cols, IsCandidate)
    IN  IF candidates = <<>> THEN InferError ELSE candidates[Len(candidates)]

\* The year cells of the model's datasets and what pd.to_numeric makes of them.
Numeral == ("2019" :> 2019) @@ ("2020" :> 2020)

\* pd.to_numeric(cell, errors="coerce")
to_numeric(cell) == IF cell \in DOMAIN Numeral THEN Numeral[cell] ELSE NaN

\* The order of the model's Code strings (Python compares them by code point).
CodeRank == ("-99" :> 1) @@ ("KEN" :> 2) @@ ("UGA" :> 3) @@ (NA :> 4)

\* r sorts at or before s by (Code, Year).
SortLeq(r, s) ==
    \/ CodeRank[r["Code"]] < CodeRank[s["Code"]]
    \/ r["Code"] = s["Code"] /\ r["Year"] <= s["Year"]

\* Stable insertion of r: behind every row that sorts at or before it.
RECURSIVE Insert(_, _)
Insert(r, sorted) ==
    IF sorted = <<>> THEN <<r>>
    ELSE LET n == Len(sorted)
         IN  IF SortLeq(sorted[n], r)
               THEN Append(sorted, r)
               ELSE Append(Insert(r, SubSeq(sorted, 1, n - 1)), sorted[n])

\* df.sort_values(["Code", "Year"]): a stable sort.
RECURSIVE sort_values(_)
sort_values(rows) ==
    IF rows = <<>> THEN <<>>
    ELSE LET n == Len(rows)
         IN  Insert(rows[n], sort_values(SubSeq(rows, 1, n - 1)))

\* df.groupby("Code").tail(1): of every group the last row, in frame order.
RECURSIVE KeepIndices(_, _, _)
KeepIndices(rows, keep, i) ==
    IF i > Len(rows) THEN <<>>
    ELSE IF keep[i] THEN <<rows[i]>> \o KeepIndices(rows, keep, i + 1)
         ELSE KeepIndices(rows, keep, i + 1)

groupby_tail(rows) ==
    LET keep == [i \in 1..Len(rows) |->
                    \A j \in (i + 1)..Len(rows) : rows[j]["Code"] # rows[i]["Code"]]
    IN  KeepIndices(rows, keep, 1)

HasCode(r) == r["Code"] # NA
HasYear(r) == r["Year"] # NaN
CoerceYear(r) == [r EXCEPT !["Year"] = to_numeric(@)]
MapRows(rows) == [i \in 1..Len(rows) |-> CoerceYear(rows[i])]

\* df.dropna(subset=["Code"])
dropna_Code(rows) == SelectSeq(rows, HasCode)

\* df.dropna(subset=["Year"])
\* (variant: the rows without a numeric year are kept)
DropnaYearMissing(rows) == rows
dropna_Year(rows) == SelectSeq(rows, HasYear)

\* _latest_per_country(df)
\* (variant: tail(1) on the unsorted frame)
LatestNoSort(rows) == groupby_tail(dropna_Year(MapRows(dropna_Code(rows))))
_latest_per_country(rows) ==
    groupby_tail(sort_values(dropna_Year(MapRows(dropna_Code(rows)))))

\* world["ISO_A3"] = world["ISO_A3"].replace("-99", pd.NA)
\* (variant: the sentinel is left in place)
ReplaceNothing(rows) == rows
replace_sentinel(rows) ==
    [i \in 1..Len(rows) |->
        [rows[i] EXCEPT !["ISO_A3"] = IF @ = "-99" THEN NA ELSE @]]

\* The right-hand cells of a map row no dataset row matched.
Unmatched(vc) ==
    ("Entity" :> NA) @@ ("Code" :> NA) @@ ("Year" :> NaN) @@ (vc :> NaN)

RECURSIVE Flatten(_)
Flatten(ss) == IF ss = <<>> THEN <<>> ELSE Head(ss) \o Flatten(Tail(ss))

\* world.merge(latest, how="left", left_on="ISO_A3", right_on="Code"): every
\* left row once per right row of the same key (pandas matches a missing key
\* with a missing key), or once with missing right cells.  The column names
\* of the two sides are taken to be disjoint, as those of the Natural Earth
\* map and of the OWID datasets are (pandas would suffix a shared name).
\* (variant: how="inner")
MergeInner(left, right, vc) ==
    Flatten([i \in 1..Len(left) |->
        LET IsMatch(r) == r["Code"] = left[i]["ISO_A3"]
            matches == SelectSeq(right, IsMatch)
        IN  [k \in 1..Len(matches) |-> left[i] @@ matches[k]]])
merge(left, right, vc) ==
    Flatten([i \in 1..Len(left) |->
        LET IsMatch(r) == r["Code"] = left[i]["ISO_A3"]
            matches == SelectSeq(right, IsMatch)
        IN  IF matches = <<>>
              THEN << left[i] @@ Unmatched(vc) >>
              ELSE [k \in 1..Len(matches) |-> left[i] @@ matches[k]]])

\* merged.rename(columns={value_col: "value"})
rename(rows, vc) ==
    [i \in 1..Len(rows) |->
        [c \in (DOMAIN rows[i] \ {vc}) \cup {"value"} |->
            IF c = "value" THEN rows[i][vc] ELSE rows[i][c]]]

\* df[["Entity", "Code", "Year", value_col]]
project(rows, vc) ==
    [i \in 1..Len(rows) |-> Restrict(rows[i], {"Entity", "Code", "Year", vc})]

\* The body of the merge loop for one dataset that passed both checks.
MergeOne(w, frame) ==
    LET vc == _infer_value_column(frame.columns)
        lat == _latest_per_country(project(frame.rows, vc))
    IN  rename(merge(w, lat, vc), vc)

(***************************************************************************)
(* app/merge_data.py: merge_map_with_datasets                              *)
(***************************************************************************)

\* The DatasetToMerge list, in order.
specs ==
    << [name |-> "Annual change in forest area (latest)",
        csv_filename |-> "annual_change_forest_area.csv"],
       [name |-> "Annual deforestation (latest)",
        csv_filename |-> "annual_deforestation.csv"],
       [name |-> "Terrestrial protected areas (latest)",
        csv_filename |-> "terrestrial_protected_areas.csv"],
       [name |-> "Share degraded land (latest)",
        csv_filename |-> "share_degraded_land.csv"],
       [name |-> "Red List Index (latest)",
        csv_filename |-> "red_list_index.csv"] >>

world_path == "ne_110m_admin_0_countries.zip"

NoFrame == [columns |-> <<>>, rows |-> <<>>]
NoResult == [returned |-> FALSE, maps |-> <<>>]
Raise(type, message) == [type |-> type, cause |-> "none", message |-> message]

\* required - set(df.columns)
missing(frame) == required \ Range(frame.columns)

\* The two checks of the loop body, in the order the code makes them.
\* (variant: the value column is inferred first)
ChecksInferFirst(frame) ==
    IF _infer_value_column(frame.columns) = InferError
      THEN Raise("ValueError", "Could not infer value column")
    ELSE IF missing(frame) # {}
      THEN Raise("ValueError", "missing columns")
    ELSE NoError
Checks(frame) ==
    IF missing(frame) # {}
      THEN Raise("ValueError", "missing columns")
    ELSE IF _infer_value_column(frame.columns) = InferError
      THEN Raise("ValueError", "Could not infer value column")
    ELSE NoError

\* merge_map_with_datasets(downloads_dir) up to the loop: the map is loaded
\* and its ISO_A3 column normalised, or the call raises.
LoadMap(m) ==
    /\ pc = "idle"
    /\ IF ~Exists(world_path)
         THEN /\ pc' = "raised"
              /\ error' = Raise("FileNotFoundError", "Map file not found")
              /\ UNCHANGED <<shapefile, reads, world, merged_maps>>
         ELSE /\ shapefile' = m
              /\ reads' = Append(reads, world_path)
              /\ IF "ISO_A3" \notin Range(m.columns)
                   THEN /\ pc' = "raised"
                        /\ error' = Raise("ValueError", "'ISO_A3' not found")
                        /\ UNCHANGED <<world, merged_maps>>
                   ELSE /\ world' = replace_sentinel(m.rows)
                        /\ merged_maps' = <<>>
                        /\ pc' = "specs"
                        /\ UNCHANGED error
    /\ UNCHANGED <<dlVars, df, latest, result, inferVars>>

\* One iteration of the loop over specs: the dataset is read, checked,
\* reduced and merged, or the call raises.
MergeDataset(frame) ==
    /\ pc = "specs"
    /\ idx <= Len(specs)
    /\ LET csv_path == specs[idx].csv_filename
       IN  IF ~Exists(csv_path)
             THEN /\ pc' = "raised"
                  /\ error' = Raise("FileNotFoundError", "Dataset not found")
                  /\ UNCHANGED <<df, reads, latest, merged_maps, idx, value_col>>
             ELSE /\ df' = frame
                  /\ reads' = Append(reads, csv_path)
                  /\ IF Checks(frame) # NoError
                       THEN /\ pc' = "raised"
                            /\ error' = Checks(frame)
                            /\ UNCHANGED <<latest, merged_maps, idx, value_col>>
                       ELSE /\ value_col' = _infer_value_column(frame.columns)
                            /\ latest' = _latest_per_country(
                                             project(frame.rows, value_col'))
                            /\ merged_maps' =
                                 (specs[idx].name :> MergeOne(world, frame))
                                     @@ merged_maps
                            /\ idx' = idx + 1
                            /\ UNCHANGED <<pc, error>>
    /\ UNCHANGED <<dirExists, fs, fs0, force, attempt, last_exception,
                   downloaded_files, log, delays, requested, written, passes,
                   world, shapefile, result, columns>>

\* The loop is exhausted: return merged_maps.
MergeReturn ==
    /\ pc = "specs"
    /\ idx > Len(specs)
    /\ pc' = "returned"
    /\ result' = [returned |-> TRUE, maps |-> merged_maps]
    /\ UNCHANGED <<dlVars, error, world, df, latest, merged_maps, shapefile,
                   reads, inferVars>>

(***************************************************************************)
(* Specifications                                                          *)
(***************************************************************************)

DownloadUnused ==
    /\ force = FALSE
    /\ idx = 1
    /\ attempt = 0
    /\ last_exception = NoException
    /\ downloaded_files = <<>>
    /\ log = <<>>
    /\ delays = <<>>
    /\ requested = {}
    /\ written = {}
    /\ passes = 0

MergeUnused ==
    /\ world = <<>>
    /\ df = NoFrame
    /\ latest = <<>>
    /\ merged_maps = <<>>
    /\ shapefile = NoFrame
    /\ reads = <<>>
    /\ result = NoResult

InferUnused ==
    /\ columns = <<>>
    /\ value_col = "unset"

\* ---- the retriever
InitDownload == DownloadInit /\ MergeUnused /\ InferUnused

NextDownload ==
    \/ \E f \in BOOLEAN : Call(f)
    \/ LoopSkip
    \/ LoopDownload
    \/ AttemptOk
    \/ \E e \in Failures : AttemptFail(e)
    \/ LoopReturn

SpecDownload == InitDownload /\ [][NextDownload]_vars

\* ---- the merger over a downloads directory
StdColumns == <<"Entity", "Code", "Year", "Forest">>

Row(code, year, v) ==
    [Entity |-> "Kenya", Code |-> code, Year |-> year, Forest |-> v]

\* What the files of the directory may hold.
SmallMaps ==
    { [columns |-> <<"ISO_A3", "geometry">>,
       rows |-> << [ISO_A3 |-> "KEN", geometry |-> 1],
                   [ISO_A3 |-> "-99", geometry |-> 2] >>],
      [columns |-> <<"ADM0_A3", "geometry">>,
       rows |-> << [ADM0_A3 |-> "KEN", geometry |-> 1] >>] }

SmallFrames ==
    { [columns |-> StdColumns,
       rows |-> << Row("KEN", "2019", 10), Row("KEN", "2020", 12) >>],
      [columns |-> <<"Entity", "Code", "Year", "Forest", "Share">>,
       rows |-> << [Entity |-> "Kenya", Code |-> "KEN", Year |-> "2020",
                    Forest |-> 10, Share |-> 55] >>],
      [columns |-> <<"Entity", "Year", "Forest">>,
       rows |-> << [Entity |-> "Kenya", Year |-> "2020", Forest |-> 10] >>],
      [columns |-> <<"Entity", "Code", "Year">>,
       rows |-> << [Entity |-> "Kenya", Code |-> "KEN", Year |-> "2020"] >>],
      [columns |-> <<"Entity">>,
       rows |-> << [Entity |-> "Kenya"] >>] }

InitMerge ==
    /\ dirExists = TRUE
    /\ fs \in [Filenames -> {"absent", "complete"}]
    /\ fs0 = fs
    /\ pc = "idle"
    /\ error = NoError
    /\ DownloadUnused
    /\ MergeUnused
    /\ InferUnused

NextMerge ==
    \/ \E m \in SmallMaps : LoadMap(m)
    \/ \E frame \in SmallFrames : MergeDataset(frame)
    \/ MergeReturn

SpecMerge == InitMerge /\ [][NextMerge]_vars

\* ---- the body of the merge loop on one map and one dataset
MapCodes == {"KEN", "UGA", "-99"}
CodeCells == {"KEN", "UGA", "-99", NA}
YearCells == {"2019", "2020", "unknown"}

\* The value cell of a dataset's i-th row.  The code never inspects a value
\* cell, so the rows carry distinct ones and a merged value names its row.
Value(i) == 8 + 2 * i

Cell(c, code, year, i) ==
    CASE c = "Entity" -> "Kenya"
      [] c = "Code"   -> code
      [] c = "Year"   -> year
      [] c = "Forest" -> Value(i)
      [] c = "Share"  -> 100 + Value(i)

Layouts ==
    { StdColumns,
      <<"Entity", "Code", "Year", "Forest", "Share">>,
      <<"Forest", "Code", "Entity", "Year">> }

\* The dataset with the given columns whose i-th row has code cs[i], year ys[i].
Frame(cols, cs, ys) ==
    [columns |-> cols,
     rows |-> [i \in 1..Len(cs) |->
                 [c \in Range(cols) |-> Cell(c, cs[i], ys[i], i)]]]

\* The map whose i-th polygon has code cs[i].
Map(cs) ==
    [columns |-> <<"ISO_A3", "geometry">>,
     rows |-> [i \in 1..Len(cs) |-> [ISO_A3 |-> cs[i], geometry |-> i]]]

\* Datasets the checks of the loop body reject.
BadFrames == { f \in SmallFrames : Checks(f) # NoError }

InitJoin ==
    /\ dirExists = TRUE
    /\ fs = [f \in Filenames |-> "complete"]
    /\ fs0 = fs
    /\ pc = "idle"
    /\ error = NoError
    /\ DownloadUnused
    /\ InferUnused
    /\ \E n \in 0..MaxPolys : \E cs \in [1..n -> MapCodes] : shapefile = Map(cs)
    /\ \/ \E n \in 0..MaxJoinRows, cols \in Layouts :
            \E cs \in [1..n -> CodeCells], ys \in [1..n -> YearCells] :
                df = Frame(cols, cs, ys)
       \/ df \in BadFrames
    /\ world = <<>>
    /\ latest = <<>>
    /\ merged_maps = <<>>
    /\ reads = <<>>
    /\ result = NoResult

\* Lines 68 and 86-109 for the one dataset df.
Join ==
    /\ pc = "idle"
    /\ world' = replace_sentinel(shapefile.rows)
    /\ IF Checks(df) # NoError
         THEN /\ pc' = "raised"
              /\ error' = Checks(df)
              /\ UNCHANGED <<latest, merged_maps, value_col>>
         ELSE /\ value_col' = _infer_value_column(df.columns)
              /\ latest' = _latest_per_country(project(df.rows, value_col'))
              /\ merged_maps' = (specs[1].name :> MergeOne(world', df))
              /\ pc' = "merged"
              /\ UNCHANGED error
    /\ UNCHANGED <<dlVars, df, shapefile, reads, result, columns>>

NextJoin == Join

SpecJoin == InitJoin /\ [][NextJoin]_vars

\* ---- _latest_per_country
InitLatest ==
    /\ dirExists = TRUE
    /\ fs = [f \in Filenames |-> "complete"]
    /\ fs0 = fs
    /\ pc = "idle"
    /\ error = NoError
    /\ DownloadUnused
    /\ InferUnused
    /\ \E n \in 0..MaxRows :
          \E cs \in [1..n -> CodeCells], ys \in [1..n -> YearCells] :
              df = Frame(StdColumns, cs, ys)
    /\ shapefile = NoFrame
    /\ world = <<>>
    /\ latest = <<>>
    /\ merged_maps = <<>>
    /\ reads = <<>>
    /\ result = NoResult

Latest ==
    /\ pc = "idle"
    /\ latest' = _latest_per_country(df.rows)
    /\ pc' = "returned"
    /\ UNCHANGED <<dlVars, error, world, df, merged_maps, shapefile, reads,
                   result, inferVars>>

NextLatest == Latest

SpecLatest == InitLatest /\ [][NextLatest]_vars

\* ---- _infer_value_column
ColumnNames == {"Entity", "Code", "Year", "GDP", "Population"}

InitInfer ==
    /\ dirExists = TRUE
    /\ fs = [f \in Filenames |-> "complete"]
    /\ fs0 = fs
    /\ pc = "idle"
    /\ error = NoError
    /\ DownloadUnused
    /\ MergeUnused
    /\ \E n \in 0..MaxCols : columns \in [1..n -> ColumnNames]
    /\ value_col = "unset"

Infer ==
    /\ pc = "idle"
    /\ value_col' = _infer_value_column(columns)
    /\ IF value_col' = InferError
         THEN /\ pc' = "raised"
              /\ error' = Raise("ValueError", "Could not infer value column")
         ELSE /\ pc' = "returned"
              /\ UNCHANGED error
    /\ UNCHANGED <<dlVars, mergeVars, columns>>

NextInfer == Infer

SpecInfer == InitInfer /\ [][NextInfer]_vars

(***************************************************************************)
(* Properties of the retriever (checked under SpecDownload)                *)
(***************************************************************************)

InPass == pc \in {"loop", "attempt", "returned", "raised"}

Pos(f) == CHOOSE i \in 1..Len(datasets) : datasets[i] = f

AllFailures(s) == \A i \in 1..Len(s) : s[i] \in Failures

\* C4: in a pass called with force = false on a directory that already holds
\* every configured file, no request is made and no file is opened for
\* writing or changed, at any point of the pass.
C4_NoRequestWhenPresent ==
    (InPass /\ ~force /\ \A f \in Filenames : fs0[f] # "absent")
        => /\ requested = {}
           /\ written = {}
           /\ fs = fs0
           /\ pc \in {"loop", "returned"}

\* A second pass with force = false has returned from a directory that held
\* every file when it was called.
C4_Witness ==
    /\ pc = "returned"
    /\ passes = 2
    /\ ~force
    /\ \A f \in Filenames : fs0[f] # "absent"
    /\ downloaded_files = datasets

\* C5: _download_file makes at most 3 attempts; it raises DownloadError only
\* after exactly 3 failed attempts, with the third failure as the cause; the
\* sleeps are 2 s, then double, never above 8 s; a call that succeeds on
\* attempt k <= 3 has made exactly k requests and ends without error.
C5_BoundedRetry ==
    /\ Len(log) <= 3
    /\ Len(delays) = Cardinality({ i \in 1..Len(log) : log[i] \in Failures })
    /\ \A i \in 1..Len(delays) :
          /\ delays[i] <= 8
          /\ delays[i] = IF i = 1 THEN 2
                         ELSE IF 2 * delays[i - 1] <= 8 THEN 2 * delays[i - 1]
                         ELSE 8
    /\ pc = "attempt" => AllFailures(log) /\ Len(log) < 3 /\ attempt = Len(log) + 1
    /\ pc = "raised" =>
          /\ Len(log) = 3
          /\ AllFailures(log)
          /\ delays = <<2, 4, 8>>
          /\ error.type = "DownloadError"
          /\ error.cause = log[3]
    /\ (log # <<>> /\ log[Len(log)] = "ok") =>
          /\ AllFailures(SubSeq(log, 1, Len(log) - 1))
          /\ pc \in {"loop", "returned"}
          /\ error = NoError
          /\ downloaded_files[Len(downloaded_files)] = datasets[idx - 1]
          /\ fs[datasets[idx - 1]] = "complete"

\* Three attempts failed in three different ways and the call has raised.
C5_Witness ==
    /\ pc = "raised"
    /\ log = <<"ConnectionError", "ChunkedEncodingError", "HTTPError">>
    /\ error.cause = "HTTPError"

\* C6: when download_required_datasets returns, the list it returns is the
\* six configured files in configuration order, each of them exists, and so
\* does the downloads directory.
C6_ReturnsAllPaths ==
    pc = "returned" =>
        /\ downloaded_files = datasets
        /\ Len(downloaded_files) = 6
        /\ \A f \in Filenames : fs[f] # "absent"
        /\ dirExists

\* A forced pass has returned from a directory that held some of the files
\* and lacked others.
C6_Witness ==
    /\ pc = "returned"
    /\ force
    /\ \E f \in Filenames : fs0[f] = "absent"
    /\ \E f \in Filenames : fs0[f] # "absent"
    /\ written = Filenames

\* C10: a pass that ends in DownloadError has made no request for a dataset
\* behind the failing one, has removed no file, has left the files it wrote
\* before complete and, if the last attempt broke mid-stream, has left the
\* failing file partial; a pass with force = false makes no request for a
\* file it found partial, leaves it as it is and returns its path.
C10_FailedPassLeavesFiles ==
    /\ pc = "raised" =>
          /\ requested \subseteq { datasets[j] : j \in 1..idx }
          /\ \A f \in Filenames : fs0[f] # "absent" => fs[f] # "absent"
          /\ \A f \in written \ {destination} : fs[f] = "complete"
          /\ log[Len(log)] = "ChunkedEncodingError" => fs[destination] = "partial"
    /\ (InPass /\ ~force) =>
          \A f \in Filenames :
              fs0[f] = "partial" =>
                  /\ f \notin requested
                  /\ fs[f] = "partial"
                  /\ Pos(f) < idx => downloaded_files[Pos(f)] = f

\* A pass with force = false has returned the path of a file an earlier,
\* failed pass left partial.
C10_Witness ==
    /\ pc = "returned"
    /\ passes = 2
    /\ ~force
    /\ \E f \in Filenames :
          fs0[f] = "partial" /\ f \notin requested /\ downloaded_files[Pos(f)] = f

(***************************************************************************)
(* Properties of the merger                                                *)
(***************************************************************************)

Labels == { specs[j].name : j \in 1..Len(specs) }

NoDuplicates(s) == \A i, j \in 1..Len(s) : i # j => s[i] # s[j]

\* C8 (under SpecMerge): the call hands back a mapping only when it returns,
\* and then one with all five labels; with the map file missing it raises
\* having read nothing; no file is read twice; the loop goes on only behind a
\* dataset that has the three columns and a value column; when it raises in the
\* loop, the datasets before the failing one were merged and are not handed
\* back, and the error is the one of the first check that fails, in the order
\* file present, columns Entity/Code/Year present, a value column present.
C8_FailFast ==
    /\ pc = "raised" => result = NoResult
    /\ result.returned =>
          /\ pc = "returned"
          /\ DOMAIN result.maps = Labels
          /\ \A f \in Filenames : Exists(f)
    /\ (~Exists(world_path) /\ pc # "idle") =>
          /\ pc = "raised"
          /\ reads = <<>>
          /\ error = Raise("FileNotFoundError", "Map file not found")
    /\ NoDuplicates(reads)
    /\ pc = "specs" =>
          /\ Len(reads) = idx
          /\ DOMAIN merged_maps = { specs[j].name : j \in 1..(idx - 1) }
    /\ (pc \in {"specs", "returned"} /\ Len(reads) > 1) =>
          /\ {"Entity", "Code", "Year"} \subseteq Range(df.columns)
          /\ Range(df.columns) # {"Entity", "Code", "Year"}
    /\ (pc = "raised" /\ reads # <<>> /\ error.message # "'ISO_A3' not found") =>
          LET csv_path == specs[idx].csv_filename
              cols == Range(df.columns)
          IN  /\ DOMAIN merged_maps = { specs[j].name : j \in 1..(idx - 1) }
              /\ error.cause = "none"
              /\ IF ~Exists(csv_path)
                   THEN /\ error.type = "FileNotFoundError"
                        /\ error.message = "Dataset not found"
                        /\ Len(reads) = idx
                   ELSE /\ reads[Len(reads)] = csv_path
                        /\ Len(reads) = idx + 1
                        /\ error.type = "ValueError"
                        /\ IF {"Entity", "Code", "Year"} \ cols # {}
                             THEN error.message = "missing columns"
                             ELSE /\ error.message = "Could not infer value column"
                                  /\ cols = {"Entity", "Code", "Year"}

\* The call raised on a dataset that lacks columns and has no value column,
\* after merging an earlier dataset.
C8_Witness ==
    /\ pc = "raised"
    /\ merged_maps # <<>>
    /\ df.columns = <<"Entity">>
    /\ error.message = "missing columns"
    /\ result = NoResult

(***************************************************************************)
(* Properties of the loop body on one dataset (checked under SpecJoin)     *)
(***************************************************************************)

merged == merged_maps[specs[1].name]

\* The column the dataset's value is expected in: the last one that is not
\* Entity, Code or Year.
ExpectedColumn ==
    LET cand == { i \in 1..Len(df.columns) :
                    df.columns[i] \notin {"Entity", "Code", "Year"} }
    IN  df.columns[CHOOSE i \in cand : \A j \in cand : j <= i]

IsNumericYear(cell) == cell \in {"2019", "2020"}

\* The rank of a year cell among the year cells of the model, a cell that
\* is no number ranking lowest.
YearOrd(cell) == IF IsNumericYear(cell) THEN Numeral[cell] ELSE 0

\* The dataset rows whose Code is the non-missing code c.
RowsOfCode(c) ==
    IF c = NA THEN {} ELSE { i \in 1..Len(df.rows) : df.rows[i]["Code"] = c }

NumericRowsOfCode(c) ==
    { i \in RowsOfCode(c) : IsNumericYear(df.rows[i]["Year"]) }

\* Row i has the greatest year among the rows R.
IsMaxYearRow(i, R) ==
    \A j \in R : YearOrd(df.rows[j]["Year"]) <= YearOrd(df.rows[i]["Year"])

\* C1: the merged result has one row per polygon of the map, the k-th being
\* the map's k-th polygon.
C1_RowCount ==
    pc = "merged" =>
        /\ Len(merged) = Len(shapefile.rows)
        /\ \A k \in 1..Len(merged) : merged[k]["geometry"] = k

\* A dataset with rows to join matched none of the map's two polygons.
C1_Witness ==
    /\ pc = "merged"
    /\ Len(shapefile.rows) = 2
    /\ Len(latest) = 2
    /\ \A k \in 1..Len(merged) : merged[k]["value"] = NaN

\* C2 as claimed: a polygon whose code is the Code of some dataset row has
\* the value of a maximum-year row of that code, any other polygon has none.
C2_AsClaimed ==
    pc = "merged" =>
        \A k \in 1..Len(merged) :
            LET R == RowsOfCode(merged[k]["ISO_A3"])
            IN  IF R # {}
                  THEN \E i \in R : /\ IsMaxYearRow(i, R)
                                    /\ merged[k]["value"] = df.rows[i][ExpectedColumn]
                  ELSE merged[k]["value"] = NaN

\* C2 as amended: a polygon whose code is the Code of some dataset row with a
\* numeric Year has the value of a maximum-year row among those rows, any
\* other polygon has none.
C2_MergedValue ==
    pc = "merged" =>
        \A k \in 1..Len(merged) :
            LET R == NumericRowsOfCode(merged[k]["ISO_A3"])
            IN  IF R # {}
                  THEN \E i \in R : /\ IsMaxYearRow(i, R)
                                    /\ merged[k]["value"] = df.rows[i][ExpectedColumn]
                  ELSE merged[k]["value"] = NaN

\* The KEN polygon got the 2020 value 12 of the rows (KEN, 2019, 10),
\* (KEN, 2020, 12) and the UGA polygon got none.
C2_Witness ==
    /\ pc = "merged"
    /\ df = Frame(StdColumns, <<"KEN", "KEN">>, <<"2019", "2020">>)
    /\ shapefile = Map(<<"KEN", "UGA">>)
    /\ merged[1]["value"] = 12
    /\ merged[2]["value"] = NaN

\* C7: a polygon whose ISO_A3 is "-99" is in the merged result, without a
\* value.
C7_SentinelNeverMatched ==
    pc = "merged" =>
        \A i \in 1..Len(shapefile.rows) :
            shapefile.rows[i]["ISO_A3"] = "-99" =>
                /\ \E k \in 1..Len(merged) : merged[k]["geometry"] = i
                /\ \A k \in 1..Len(merged) :
                      merged[k]["geometry"] = i => merged[k]["value"] = NaN

\* A map with a "-99" polygon was merged with a dataset that has a row of
\* Code "-99" and a row without Code, both with a numeric year.
C7_Witness ==
    /\ pc = "merged"
    /\ \E i \in 1..Len(shapefile.rows) : shapefile.rows[i]["ISO_A3"] = "-99"
    /\ \E i \in 1..Len(df.rows) :
          df.rows[i]["Code"] = "-99" /\ IsNumericYear(df.rows[i]["Year"])
    /\ \E i \in 1..Len(df.rows) :
          df.rows[i]["Code"] = NA /\ IsNumericYear(df.rows[i]["Year"])

(***************************************************************************)
(* Properties of _latest_per_country (checked under SpecLatest)            *)
(***************************************************************************)

InputCodes == { df.rows[i]["Code"] : i \in 1..Len(df.rows) } \ {NA}

OutputRows(c) == { k \in 1..Len(latest) : latest[k]["Code"] = c }

\* The result has exactly one row of code c, with the greatest numeric year
\* the input has for c.
OneRowOfMaxYear(c) ==
    /\ Cardinality(OutputRows(c)) = 1
    /\ \A k \in OutputRows(c) :
          /\ \E i \in NumericRowsOfCode(c) :
                Numeral[df.rows[i]["Year"]] = latest[k]["Year"]
          /\ \A i \in NumericRowsOfCode(c) :
                Numeral[df.rows[i]["Year"]] <= latest[k]["Year"]

\* C3 as claimed: every non-missing code of the input has exactly one row in
\* the result, with the code's greatest year; a missing code has none.
C3_AsClaimed ==
    pc = "returned" =>
        /\ \A c \in InputCodes : OneRowOfMaxYear(c)
        /\ OutputRows(NA) = {}

\* C3 as amended: every non-missing code that has a row with a numeric Year
\* has exactly one row in the result, with the code's greatest numeric year;
\* a code that has no such row, and the missing code, have none.
C3_LatestPerCountry ==
    pc = "returned" =>
        /\ \A c \in InputCodes :
              IF NumericRowsOfCode(c) # {} THEN OneRowOfMaxYear(c)
              ELSE OutputRows(c) = {}
        /\ OutputRows(NA) = {}
        /\ \A k \in 1..Len(latest) : latest[k]["Code"] \in InputCodes

\* KEN has the years 2020 and 2019, in that order, and a third row has no
\* code: the result is the one KEN row of 2020.
C3_Witness ==
    /\ pc = "returned"
    /\ df = Frame(StdColumns, <<"KEN", NA, "KEN">>, <<"2020", "2020", "2019">>)
    /\ Len(latest) = 1
    /\ latest[1]["Year"] = 2020
    /\ latest[1]["Forest"] = 10

(***************************************************************************)
(* Properties of _infer_value_column (checked under SpecInfer)             *)
(***************************************************************************)

Candidates == { i \in 1..Len(columns) : columns[i] \notin {"Entity", "Code", "Year"} }

\* C9: _infer_value_column returns the column of the greatest position that
\* is not Entity, Code or Year, and raises exactly when there is none; on
\* Entity, Code, Year, GDP it returns GDP.
C9_InferLast ==
    pc # "idle" =>
        /\ IF Candidates = {}
             THEN /\ pc = "raised"
                  /\ error.type = "ValueError"
             ELSE /\ pc = "returned"
                  /\ \E i \in Candidates :
                        /\ \A j \in Candidates : j <= i
                        /\ value_col = columns[i]
        /\ columns = <<"Entity", "Code", "Year", "GDP">> => value_col = "GDP"
        /\ columns = <<"Entity", "Code", "Year">> => pc = "raised"

\* Two value columns among the structural ones: the later one is returned.
C9_Witness ==
    /\ pc = "returned"
    /\ columns = <<"GDP", "Entity", "Population", "Year">>
    /\ value_col = "Population"

====
